---- MODULE Spec2Model ----
(***************************************************************************)
(* Model of examples/scope/scope.py: the ScopeWindow state machine (the    *)
(* "Axis Supervisor"), the HomingRunner worker thread, the queued delivery *)
(* of its 'finished' signal to the GUI thread, and the poller / plot timer *)
(* that enableScope and disableScope start and stop.                       *)
(*                                                                         *)
(* The GUI thread runs one slot at a time, so every slot is one action.    *)
(* HomingRunner.run executes in its own QThread, so it is split at every   *)
(* call it makes on the axis; the GUI thread may run between two of them.  *)
(* Every call on the axis may raise (nondeterministic choice).             *)
(***************************************************************************)
EXTENDS Integers, Sequences, FiniteSets

\* Number of homing runs the user starts in one behaviour.
MaxRuns == 2

Runs == 1..MaxRuns

\* ScopeWindow.stateIdle .. stateVelocity (stateInit is left inside __init__).
stateIdle == "Idle"
stateHoming == "Homing"
statePosition == "PositionControl"
stateVelocity == "VelocityControl"

\* The registers handed to enableScope.
POS_ACTUAL == "POS_ACTUAL"
VEL_ACTUAL == "VEL_ACTUAL"

\* ScopeWindow._N_SAMPLES (1000 in the program), the length of the plotted
\* window, scaled down.
N_SAMPLES == 3

\* ScopeWindow._POLLER_BUF_SZ (100 in the program), the capacity of the
\* poller's queue, scaled down; it stays below N_SAMPLES as in the program.
POLLER_BUF_SZ == 2

\* ScopeWindow._POLLER_T_S: the sampling period, ms.  Times of the model are
\* integers in ms where the program has floats in s.
POLLER_T_S == 10

\* Number of samples one poller takes in one behaviour.
MaxSamples == 4

\* The values a read of the polled register returns.
Vals == {1, 2}

\* The values the user turns a dial to.
DialValues == {0, 1}

VARIABLES
    win,      \* the ScopeWindow: _state, widgets' enabled flags, status label,
              \* _poller, _timerPlotUpdate, _data, _time and the data last
              \* handed to _curve
    axis,     \* the device behind currentAxis(): whether its power stage is
              \* enabled and its position and velocity targets (the mode and
              \* units written to it are not tracked: writing them is a call
              \* that succeeds or raises)
    runners,  \* one HomingRunner (and its QThread) per homing run
    nRuns,    \* number of HomingRunner objects created so far
    events,   \* GUI thread's event queue: the result strings of the queued
              \* 'finished' emissions, oldest first
    cmd,      \* history: the command issued by the last step ("worker" for a
              \* step of a worker thread)
    tableState \* history: the transition table of the design folded over the
              \* commands issued so far

vars == <<win, axis, runners, nRuns, events, cmd, tableState>>

----------------------------------------------------------------------------
\* setState with the statePosition branch leaving tabHoming enabled.
setState_HomingTabLeftEnabled(w, s) ==
    IF s = stateIdle THEN
        [w EXCEPT !.cboxAxes = TRUE,
                  !.tabHoming = TRUE, !.btnHoming = TRUE,
                  !.tabPosition = TRUE, !.dialPosition = FALSE,
                  !.btnPositionText = "Enable",
                  !.tabVelocity = TRUE, !.dialVelocity = FALSE,
                  !.btnVelocityText = "Enable",
                  !.state = s]
    ELSE IF s = stateHoming THEN
        [w EXCEPT !.cboxAxes = FALSE,
                  !.tabPosition = FALSE, !.tabVelocity = FALSE,
                  !.btnHoming = FALSE,
                  !.lblHomingStatus = "Running...",
                  !.state = s]
    ELSE IF s = statePosition THEN
        [w EXCEPT !.cboxAxes = FALSE,
                  !.tabVelocity = FALSE,
                  !.btnPositionText = "Disable",
                  !.dialPosition = TRUE,
                  !.state = s]
    ELSE
        [w EXCEPT !.cboxAxes = FALSE,
                  !.tabHoming = FALSE, !.tabPosition = FALSE,
                  !.btnVelocityText = "Disable",
                  !.dialVelocity = TRUE,
                  !.state = s]

\* setState with the stateVelocity branch leaving tabPosition enabled.
setState_PositionTabLeftEnabled(w, s) ==
    IF s = stateIdle THEN
        [w EXCEPT !.cboxAxes = TRUE,
                  !.tabHoming = TRUE, !.btnHoming = TRUE,
                  !.tabPosition = TRUE, !.dialPosition = FALSE,
                  !.btnPositionText = "Enable",
                  !.tabVelocity = TRUE, !.dialVelocity = FALSE,
                  !.btnVelocityText = "Enable",
                  !.state = s]
    ELSE IF s = stateHoming THEN
        [w EXCEPT !.cboxAxes = FALSE,
                  !.tabPosition = FALSE, !.tabVelocity = FALSE,
                  !.btnHoming = FALSE,
                  !.lblHomingStatus = "Running...",
                  !.state = s]
    ELSE IF s = statePosition THEN
        [w EXCEPT !.cboxAxes = FALSE,
                  !.tabHoming = FALSE, !.tabVelocity = FALSE,
                  !.btnPositionText = "Disable",
                  !.dialPosition = TRUE,
                  !.state = s]
    ELSE
        [w EXCEPT !.cboxAxes = FALSE,
                  !.tabHoming = FALSE,
                  !.btnVelocityText = "Disable",
                  !.dialVelocity = TRUE,
                  !.state = s]

\* setState with the stateIdle branch leaving the dials as they are.
setState_DialsLeftEnabled(w, s) ==
    IF s = stateIdle THEN
        [w EXCEPT !.cboxAxes = TRUE,
                  !.tabHoming = TRUE, !.btnHoming = TRUE,
                  !.tabPosition = TRUE,
                  !.btnPositionText = "Enable",
                  !.tabVelocity = TRUE,
                  !.btnVelocityText = "Enable",
                  !.state = s]
    ELSE IF s = stateHoming THEN
        [w EXCEPT !.cboxAxes = FALSE,
                  !.tabPosition = FALSE, !.tabVelocity = FALSE,
                  !.btnHoming = FALSE,
                  !.lblHomingStatus = "Running...",
                  !.state = s]
    ELSE IF s = statePosition THEN
        [w EXCEPT !.cboxAxes = FALSE,
                  !.tabHoming = FALSE, !.tabVelocity = FALSE,
                  !.btnPositionText = "Disable",
                  !.dialPosition = TRUE,
                  !.state = s]
    ELSE
        [w EXCEPT !.cboxAxes = FALSE,
                  !.tabHoming = FALSE, !.tabPosition = FALSE,
                  !.btnVelocityText = "Disable",
                  !.dialVelocity = TRUE,
                  !.state = s]

\* ScopeWindow.setState(state), for the four states used after construction.
\* Only the widgets the branch touches change; self._state is set last.
setState(w, s) ==
    IF s = stateIdle THEN
        [w EXCEPT !.cboxAxes = TRUE,
                  !.tabHoming = TRUE, !.btnHoming = TRUE,
                  !.tabPosition = TRUE, !.dialPosition = FALSE,
                  !.btnPositionText = "Enable",
                  !.tabVelocity = TRUE, !.dialVelocity = FALSE,
                  !.btnVelocityText = "Enable",
                  !.state = s]
    ELSE IF s = stateHoming THEN
        [w EXCEPT !.cboxAxes = FALSE,
                  !.tabPosition = FALSE, !.tabVelocity = FALSE,
                  !.btnHoming = FALSE,
                  !.lblHomingStatus = "Running...",
                  !.state = s]
    ELSE IF s = statePosition THEN
        [w EXCEPT !.cboxAxes = FALSE,
                  !.tabHoming = FALSE, !.tabVelocity = FALSE,
                  !.btnPositionText = "Disable",
                  !.dialPosition = TRUE,
                  !.state = s]
    ELSE
        [w EXCEPT !.cboxAxes = FALSE,
                  !.tabHoming = FALSE, !.tabPosition = FALSE,
                  !.btnVelocityText = "Disable",
                  !.dialVelocity = TRUE,
                  !.state = s]

\* np.zeros(n).
zeros(n) == [i \in 1..n |-> 0]

\* np.arange(start, stop, step) for step > 0: ceil((stop - start) / step)
\* values from start in steps of step, stop excluded.
arange(start, stop, step) ==
    LET n == IF stop > start THEN (stop - start + step - 1) \div step ELSE 0
    IN  [i \in 1..n |-> start + (i - 1) * step]

\* np.roll with the shift applied in the opposite direction.
roll_Opposite(a, k) ==
    [i \in 1..Len(a) |-> a[((i - 1 + k) % Len(a)) + 1]]

\* np.roll(a, k): the element at index i moves to index i + k, cyclically.
roll(a, k) ==
    [i \in 1..Len(a) |-> a[((i - 1 - k) % Len(a)) + 1]]

\* a[-n:] = b on a copy of a: the last n elements are replaced by b.
setLast(a, n, b) ==
    [i \in 1..Len(a) |-> IF i > Len(a) - n THEN b[i - (Len(a) - n)] ELSE a[i]]

\* The time axis primed from 0 upwards (the sign of the start is lost).
primeTime_FromZero == arange(0, N_SAMPLES * POLLER_T_S, POLLER_T_S)

\* The time axis enableScope primes: N_SAMPLES placeholders before time 0.
primeTime == arange(-N_SAMPLES * POLLER_T_S, 0, POLLER_T_S)

\* il.Poller(axis, reg, period, sz): a poller that has not been started; its
\* queue is empty and its elapsed time is 0.
Poller(reg) ==
    [exists |-> TRUE, started |-> FALSE, reg |-> reg, queue |-> <<>>,
     elapsed |-> 0]

\* ScopeWindow.enableScope(axis, reg): a new Poller replaces self._poller, the
\* data and time arrays are primed, the plot timer is started, then the poller.
enableScope(w, reg) ==
    [w EXCEPT !.poller = [Poller(reg) EXCEPT !.started = TRUE],
              !.data = zeros(N_SAMPLES),
              !.time = primeTime,
              !.timer = TRUE]

\* disableScope without self._timerPlotUpdate.stop().
disableScope_TimerLeftRunning(w) ==
    [w EXCEPT !.poller.started = FALSE]

\* ScopeWindow.disableScope(): stops the poller, then the timer.
disableScope(w) ==
    [w EXCEPT !.poller.started = FALSE, !.timer = FALSE]

\* The window after ScopeWindow.__init__: setState(stateInit) loads the widgets
\* (all enabled), setState(stateIdle) follows; no poller exists yet.
InitWindow ==
    setState([state |-> "Init",
              cboxAxes |-> TRUE, tabHoming |-> TRUE, btnHoming |-> TRUE,
              tabPosition |-> TRUE, dialPosition |-> TRUE,
              btnPositionText |-> "", tabVelocity |-> TRUE,
              dialVelocity |-> TRUE, btnVelocityText |-> "",
              lblHomingStatus |-> "",
              poller |-> [exists |-> FALSE, started |-> FALSE, reg |-> "none",
                          queue |-> <<>>, elapsed |-> 0],
              data |-> <<>>, time |-> <<>>,
              curve |-> [time |-> <<>>, data |-> <<>>],
              timer |-> FALSE], stateIdle)

\* A HomingRunner that has not been created.
NoRunner ==
    [pc |-> "none", emitted |-> 0, disables |-> 0, lastCall |-> "none",
     setupFailed |-> FALSE]

Init ==
    /\ win = InitWindow
    /\ axis = [enabled |-> FALSE, position |-> 0, velocity |-> 0]
    /\ runners = [r \in Runs |-> NoRunner]
    /\ nRuns = 0
    /\ events = <<>>
    /\ cmd = "init"
    /\ tableState = stateIdle

----------------------------------------------------------------------------
\* HomingRunner.run, one action per call on the axis.  ok = FALSE: the call
\* raises.

\* self.finished.emit(result): the connection to ScopeWindow.onHomingFinished
\* crosses threads, so the call is queued on the GUI thread's event queue.
emit(r, result, rec) ==
    /\ events' = Append(events, result)
    /\ runners' = [runners EXCEPT ![r] = [rec EXCEPT !.emitted = @ + 1]]

\* self._axis.mode = il.MODE_HOMING (first try block).  A raise is caught by
\* the except clause, which emits and falls through to the second try block.
run_mode(r, ok) ==
    /\ runners[r].pc = "mode"
    /\ IF ok
       THEN /\ axis' = axis
            /\ runners' = [runners EXCEPT ![r].pc = "enable",
                                          ![r].lastCall = "mode"]
            /\ events' = events
       ELSE /\ axis' = axis
            /\ emit(r, "Error", [runners[r] EXCEPT !.pc = "start",
                                                   !.lastCall = "mode",
                                                   !.setupFailed = TRUE])

\* self._axis.enable() (first try block).
run_enable(r, ok) ==
    /\ runners[r].pc = "enable"
    /\ IF ok
       THEN /\ axis' = [axis EXCEPT !.enabled = TRUE]
            /\ runners' = [runners EXCEPT ![r].pc = "start",
                                          ![r].lastCall = "enable"]
            /\ events' = events
       ELSE /\ axis' = axis
            /\ emit(r, "Error", [runners[r] EXCEPT !.pc = "start",
                                                   !.lastCall = "enable",
                                                   !.setupFailed = TRUE])

\* run_start without the finally clause on the except path: a raise of
\* homing_start is reported and run returns at once.
run_start_NoFinally(r, ok) ==
    /\ runners[r].pc = "start"
    /\ axis' = axis
    /\ IF ok
       THEN /\ runners' = [runners EXCEPT ![r].pc = "wait",
                                          ![r].lastCall = "homing_start"]
            /\ events' = events
       ELSE emit(r, "Error", [runners[r] EXCEPT !.pc = "exited",
                                                !.lastCall = "homing_start"])

\* self._axis.homing_start() (second try block).  A raise is caught, emitted,
\* and the finally clause runs next.
run_start(r, ok) ==
    /\ runners[r].pc = "start"
    /\ axis' = axis
    /\ IF ok
       THEN /\ runners' = [runners EXCEPT ![r].pc = "wait",
                                          ![r].lastCall = "homing_start"]
            /\ events' = events
       ELSE emit(r, "Error", [runners[r] EXCEPT !.pc = "disable",
                                                !.lastCall = "homing_start"])

\* run_wait whose except clause does not emit: an error or a timeout of
\* homing_wait is swallowed.
run_wait_NoEmitOnError(r, ok) ==
    /\ runners[r].pc = "wait"
    /\ axis' = axis
    /\ IF ok
       THEN emit(r, "Finished", [runners[r] EXCEPT !.pc = "disable",
                                                   !.lastCall = "homing_wait"])
       ELSE /\ runners' = [runners EXCEPT ![r].pc = "disable",
                                          ![r].lastCall = "homing_wait"]
            /\ events' = events

\* self._axis.homing_wait(self._timeout), then emit('Finished'); an error or
\* the expiry of the timeout raises and emits 'Error: ...'.
run_wait(r, ok) ==
    /\ runners[r].pc = "wait"
    /\ axis' = axis
    /\ emit(r, IF ok THEN "Finished" ELSE "Error",
            [runners[r] EXCEPT !.pc = "disable",
                               !.lastCall = "homing_wait"])

\* finally: self._axis.disable().  run returns (or the raise leaves it).
run_disable(r, ok) ==
    /\ runners[r].pc = "disable"
    /\ axis' = IF ok THEN [axis EXCEPT !.enabled = FALSE] ELSE axis
    /\ runners' = [runners EXCEPT ![r].pc = "exited",
                                  ![r].lastCall = "disable",
                                  ![r].disables = @ + 1]
    /\ events' = events

\* One step of the worker thread of run r.
HomingRunner_run(r) ==
    /\ \E ok \in BOOLEAN :
          \/ run_mode(r, ok)
          \/ run_enable(r, ok)
          \/ run_start(r, ok)
          \/ run_wait(r, ok)
          \/ run_disable(r, ok)
    /\ cmd' = "worker"
    /\ UNCHANGED <<win, nRuns, tableState>>

----------------------------------------------------------------------------
\* Slots of ScopeWindow.  Each runs to completion on the GUI thread.

\* ScopeWindow.onHomingFinished(result).
onHomingFinished(result) ==
    /\ win' = setState([win EXCEPT !.lblHomingStatus = result], stateIdle)
    /\ UNCHANGED <<axis, runners, nRuns>>

\* ScopeWindow.on_btnHoming_clicked(): a new QThread and HomingRunner are
\* created and the thread is started; run begins at its first statement.
\* self._thread and self._runner are rebound; a previous thread that is still
\* executing run keeps executing it.
on_btnHoming_clicked ==
    /\ win' = setState(win, stateHoming)
    /\ nRuns' = nRuns + 1
    /\ runners' = [runners EXCEPT ![nRuns + 1] = [NoRunner EXCEPT !.pc = "mode"]]
    /\ UNCHANGED <<axis, events>>

\* ScopeWindow.on_btnPosition_clicked().  f names the call on the axis that
\* raises ("none": no call raises); the raise leaves the slot at that point.
on_btnPosition_clicked(f) ==
    /\ IF win.state = stateIdle
       THEN /\ f \in {"none", "mode", "units", "enable"}
            /\ axis' = IF f = "none" THEN [axis EXCEPT !.enabled = TRUE] ELSE axis
            /\ win' = IF f = "none"
                      THEN setState(enableScope(win, POS_ACTUAL), statePosition)
                      ELSE win
       ELSE /\ f \in {"none", "disable"}
            /\ IF ~win.poller.exists
               THEN UNCHANGED <<win, axis>>    \* no self._poller: AttributeError
               ELSE /\ axis' = IF f = "none"
                               THEN [axis EXCEPT !.enabled = FALSE] ELSE axis
                    /\ win' = IF f = "none"
                              THEN setState(disableScope(win), stateIdle)
                              ELSE disableScope(win)
    /\ UNCHANGED <<runners, nRuns, events>>

\* ScopeWindow.on_btnVelocity_clicked().
on_btnVelocity_clicked(f) ==
    /\ IF win.state = stateIdle
       THEN /\ f \in {"none", "mode", "units", "enable"}
            /\ axis' = IF f = "none" THEN [axis EXCEPT !.enabled = TRUE] ELSE axis
            /\ win' = IF f = "none"
                      THEN setState(enableScope(win, VEL_ACTUAL), stateVelocity)
                      ELSE win
       ELSE /\ f \in {"none", "disable"}
            /\ IF ~win.poller.exists
               THEN UNCHANGED <<win, axis>>
               ELSE /\ axis' = IF f = "none"
                               THEN [axis EXCEPT !.enabled = FALSE] ELSE axis
                    /\ win' = IF f = "none"
                              THEN setState(disableScope(win), stateIdle)
                              ELSE disableScope(win)
    /\ UNCHANGED <<runners, nRuns, events>>

\* ScopeWindow.on_dialPosition_valueChanged(value).
on_dialPosition_valueChanged(value) ==
    /\ axis' = [axis EXCEPT !.position = value]
    /\ UNCHANGED <<win, runners, nRuns, events>>

\* ScopeWindow.on_dialVelocity_valueChanged(value).
on_dialVelocity_valueChanged(value) ==
    /\ axis' = [axis EXCEPT !.velocity = value]
    /\ UNCHANGED <<win, runners, nRuns, events>>

\* The body of 'if samples:' appending the drained samples without dropping
\* the oldest entries.
pushSamples_Append(w, q) ==
    LET samples == Len(q)
        data == w.data \o [i \in 1..samples |-> q[i].d]
        time == w.time \o [i \in 1..samples |-> q[i].t]
    IN  [w EXCEPT !.data = data, !.time = time,
                  !.curve = [time |-> time, data |-> data]]

\* The window after the body of 'if samples:' with the drained queue q: both
\* arrays are rolled left by len(q), their last len(q) entries are overwritten
\* with the drained values and times, and the arrays are handed to the curve.
pushSamples(w, q) ==
    LET samples == Len(q)
        d == [i \in 1..samples |-> q[i].d]
        t == [i \in 1..samples |-> q[i].t]
        data == setLast(roll(w.data, -samples), samples, d)
        time == setLast(roll(w.time, -samples), samples, t)
    IN  [w EXCEPT !.data = data, !.time = time,
                  !.curve = [time |-> time, data |-> data]]

\* ScopeWindow.on_timerPlotUpdate_expired(): self._poller.data drains the
\* poller's queue; nothing else happens when it was empty.
on_timerPlotUpdate_expired ==
    /\ win' = IF Len(win.poller.queue) > 0
              THEN pushSamples([win EXCEPT !.poller.queue = <<>>],
                               win.poller.queue)
              ELSE win
    /\ UNCHANGED <<axis, runners, nRuns, events>>

\* The sampling thread of il.Poller: every period it reads the register and
\* appends (elapsed time, value) to its queue; when the queue is full the
\* oldest entry is dropped.
pollerSample(p, v) ==
    LET s == [t |-> p.elapsed + POLLER_T_S, d |-> v]
    IN  [p EXCEPT !.elapsed = s.t,
                  !.queue = IF Len(@) = POLLER_BUF_SZ
                            THEN Append(Tail(@), s)
                            ELSE Append(@, s)]

----------------------------------------------------------------------------
\* Whether a click reaches the button's slot: a button takes clicks only while
\* it and the tab page that holds it are enabled (btnHoming lies on tabHoming,
\* btnPosition on tabPosition, btnVelocity on tabVelocity in scopewindow.ui).
btnHomingClickable(w) == w.tabHoming /\ w.btnHoming
btnPositionClickable(w) == w.tabPosition
btnVelocityClickable(w) == w.tabVelocity

\* Whether the user can turn a dial: the dial and the tab page that holds it
\* are enabled (dialPosition lies on tabPosition, dialVelocity on tabVelocity).
dialPositionUsable(w) == w.tabPosition /\ w.dialPosition
dialVelocityUsable(w) == w.tabVelocity /\ w.dialVelocity

\* The transition table of the design (state x command -> next state); every
\* pair not listed keeps the state.
Table(s, c) ==
    IF s = stateIdle /\ c = "requestHoming" THEN stateHoming
    ELSE IF s = stateIdle /\ c = "togglePositionControl" THEN statePosition
    ELSE IF s = stateIdle /\ c = "toggleVelocityControl" THEN stateVelocity
    ELSE IF s = stateHoming /\ c = "onHomingComplete" THEN stateIdle
    ELSE IF s = statePosition /\ c = "togglePositionControl" THEN stateIdle
    ELSE IF s = stateVelocity /\ c = "toggleVelocityControl" THEN stateIdle
    ELSE s

\* History of a command: the table is folded over it unless a call on the axis
\* raised inside it (the transition was aborted).
Issued(c, failed) ==
    /\ cmd' = c
    /\ tableState' = IF failed THEN tableState ELSE Table(tableState, c)

\* requestHoming: the user clicks btnHoming.
ClickHoming ==
    /\ btnHomingClickable(win) => nRuns < MaxRuns
    /\ IF btnHomingClickable(win)
       THEN on_btnHoming_clicked
       ELSE UNCHANGED <<win, axis, runners, nRuns, events>>
    /\ Issued("requestHoming", FALSE)

\* togglePositionControl: the user clicks btnPosition.
ClickPosition ==
    \E f \in {"none", "mode", "units", "enable", "disable"} :
        /\ IF btnPositionClickable(win)
           THEN on_btnPosition_clicked(f)
           ELSE /\ f = "none"
                /\ UNCHANGED <<win, axis, runners, nRuns, events>>
        /\ Issued("togglePositionControl", f # "none")

\* toggleVelocityControl: the user clicks btnVelocity.
ClickVelocity ==
    \E f \in {"none", "mode", "units", "enable", "disable"} :
        /\ IF btnVelocityClickable(win)
           THEN on_btnVelocity_clicked(f)
           ELSE /\ f = "none"
                /\ UNCHANGED <<win, axis, runners, nRuns, events>>
        /\ Issued("toggleVelocityControl", f # "none")

\* onHomingComplete: the GUI thread's event loop takes the oldest queued
\* 'finished' emission and invokes the slot connected to it.
Deliver ==
    /\ events # <<>>
    /\ onHomingFinished(Head(events))
    /\ events' = Tail(events)
    /\ Issued("onHomingComplete", FALSE)

Next ==
    \/ ClickHoming
    \/ ClickPosition
    \/ ClickVelocity
    \/ Deliver
    \/ \E r \in Runs : HomingRunner_run(r)

Spec == Init /\ [][Next]_vars

\* The worker thread of every started run is scheduled, and the GUI thread's
\* event loop processes every queued event.
LiveSpec ==
    /\ Spec
    /\ WF_vars(Deliver)
    /\ \A r \in Runs : WF_vars(HomingRunner_run(r))

----------------------------------------------------------------------------
\* The events of the whole window, without the history of commands: a click
\* or a dial turn happens when the widget takes it.

hist == <<cmd, tableState>>

\* The user clicks btnHoming.
PressHoming ==
    /\ btnHomingClickable(win)
    /\ nRuns < MaxRuns
    /\ on_btnHoming_clicked
    /\ UNCHANGED hist

\* The user clicks btnPosition.
PressPosition ==
    /\ btnPositionClickable(win)
    /\ \E f \in {"none", "mode", "units", "enable", "disable"} :
           on_btnPosition_clicked(f)
    /\ UNCHANGED hist

\* The user clicks btnVelocity.
PressVelocity ==
    /\ btnVelocityClickable(win)
    /\ \E f \in {"none", "mode", "units", "enable", "disable"} :
           on_btnVelocity_clicked(f)
    /\ UNCHANGED hist

\* The user turns dialPosition.
TurnPositionDial ==
    /\ dialPositionUsable(win)
    /\ \E v \in DialValues : on_dialPosition_valueChanged(v)
    /\ UNCHANGED hist

\* The user turns dialVelocity.
TurnVelocityDial ==
    /\ dialVelocityUsable(win)
    /\ \E v \in DialValues : on_dialVelocity_valueChanged(v)
    /\ UNCHANGED hist

\* The event loop invokes onHomingFinished for the oldest queued emission.
Completion ==
    /\ events # <<>>
    /\ onHomingFinished(Head(events))
    /\ events' = Tail(events)
    /\ UNCHANGED hist

\* One step of the worker thread of run r.
WorkerStep(r) ==
    /\ \E ok \in BOOLEAN :
          \/ run_mode(r, ok)
          \/ run_enable(r, ok)
          \/ run_start(r, ok)
          \/ run_wait(r, ok)
          \/ run_disable(r, ok)
    /\ UNCHANGED <<win, nRuns, hist>>

\* _timerPlotUpdate fires (it fires only while it is active).
Tick ==
    /\ win.timer
    /\ on_timerPlotUpdate_expired
    /\ UNCHANGED hist

\* The sampling thread of the current poller takes one sample.
PollerSample ==
    /\ win.poller.started
    /\ win.poller.elapsed < MaxSamples * POLLER_T_S
    /\ \E v \in Vals : win' = [win EXCEPT !.poller = pollerSample(@, v)]
    /\ UNCHANGED <<axis, runners, nRuns, events, hist>>

\* Commands, dials, homing and timer ticks; the pollers deliver no sample.
GuiNext ==
    \/ PressHoming
    \/ PressPosition
    \/ PressVelocity
    \/ TurnPositionDial
    \/ TurnVelocityDial
    \/ Completion
    \/ Tick
    \/ \E r \in Runs : WorkerStep(r)

GuiSpec == Init /\ [][GuiNext]_vars

\* The telemetry pipeline: the two toggles, the sampling thread and the timer.
ScopeNext ==
    \/ PressPosition
    \/ PressVelocity
    \/ PollerSample
    \/ Tick

ScopeSpec == Init /\ [][ScopeNext]_vars

----------------------------------------------------------------------------
\* The runs whose HomingRunner.run has started and not yet returned.
Running == {r \in Runs : runners[r].pc \notin {"none", "exited"}}

\* C1: after every prefix of commands the window's state equals the design's
\* transition table folded over that prefix from Idle; pairs outside the table
\* leave the state unchanged.
C1_StateFollowsTable == win.state = tableState

\* C2: the 'finished' signal of a run is emitted exactly once: never twice, and
\* once by the time run has returned.
C2_FinishedEmittedOnce ==
    \A r \in Runs :
        /\ runners[r].emitted <= 1
        /\ runners[r].pc = "exited" => runners[r].emitted = 1

\* C3: after the mode write or enable() raised, the worker issues neither
\* homing_start() nor homing_wait().
C3_NoHomingAfterSetupFailure ==
    \A r \in Runs :
        runners[r].setupFailed =>
            runners[r].lastCall \notin {"homing_start", "homing_wait"}

\* C4: at most one HomingRunner.run is between its start and its return.
C4_AtMostOneRunner == Cardinality(Running) <= 1

\* C5: a started poller never coexists with a HomingRunner.run that has not
\* yet made its last call on the axis.
C5_PollerExcludesHoming == ~(win.poller.started /\ Running # {})

\* C6: a completion delivered while the state is not Homing is ignored: the
\* state, the status label, the poller and the timer are unchanged.
C6_LateCompletionIgnored ==
    [][Deliver /\ win.state # stateHoming => win' = win]_vars

\* C7: requestHoming issued in PositionControl, VelocityControl or Homing is
\* rejected: the state stays and no HomingRunner is created.
C7_HomingOnlyFromIdle ==
    [][ClickHoming /\ win.state # stateIdle
          => win' = win /\ nRuns' = nRuns /\ runners' = runners]_vars

\* C7 witness: requestHoming has just been issued in PositionControl with the
\* poller running, and the window is still in PositionControl.
C7_Witness ==
    /\ cmd = "requestHoming"
    /\ win.state = statePosition
    /\ win.poller.started

\* C8: togglePositionControl issued in Homing or VelocityControl, and
\* toggleVelocityControl issued in Homing or PositionControl, change nothing:
\* not the state, not the poller or the timer, not the device.
C8_ToggleOnlyWhenLegal ==
    [][(\/ ClickPosition /\ win.state \in {stateHoming, stateVelocity}
        \/ ClickVelocity /\ win.state \in {stateHoming, statePosition})
          => win' = win /\ axis' = axis]_vars

\* C8 witness: togglePositionControl has just been issued in VelocityControl
\* and the velocity poller, the timer and the device are still on.
C8_Witness ==
    /\ cmd = "togglePositionControl"
    /\ win.state = stateVelocity
    /\ win.poller.started /\ win.timer /\ axis.enabled

\* C9: under fair scheduling of the workers and of the event loop, Homing is
\* always followed by Idle.
C9_HomingReturnsToIdle == (win.state = stateHoming) ~> (win.state = stateIdle)

\* C9 witness: a completion reported after homing_wait raised (error or
\* timeout) has just returned the window to Idle.
C9_Witness ==
    /\ cmd = "onHomingComplete"
    /\ win.state = stateIdle
    /\ win.lblHomingStatus = "Error"
    /\ \E r \in Runs : runners[r].lastCall = "homing_wait"
                       /\ ~runners[r].setupFailed

\* C10: disable() is called exactly once per run, on every path, and it is the
\* worker's last call on the axis.
C10_DisableOncePerRun ==
    \A r \in Runs :
        /\ runners[r].disables <= 1
        /\ runners[r].pc = "exited" =>
               runners[r].disables = 1 /\ runners[r].lastCall = "disable"

\* C10 witness: a run whose setup failed has returned and its completions have
\* been handled.
C10_Witness ==
    \E r \in Runs :
        /\ runners[r].pc = "exited"
        /\ runners[r].setupFailed
        /\ events = <<>>
        /\ win.state = stateIdle

\* C11: when a completion returns the window from Homing to Idle, every
\* homing run has already made its disable() call, so none is applied to the
\* device after Idle has been entered.
C11_DisabledBeforeIdle ==
    [][Deliver /\ win.state = stateHoming
          => \A r \in Runs : runners[r].pc \in {"none", "exited"}]_vars

\* C12: once enableScope has primed them, the data and the time array have
\* exactly N_SAMPLES entries, whatever batches the timer ticks have pushed.
C12_BufferLengthIsN ==
    win.poller.exists =>
        Len(win.data) = N_SAMPLES /\ Len(win.time) = N_SAMPLES

\* C12 witness: a batch as large as the poller's queue has been pushed.
C12_Witness ==
    /\ win.poller.exists
    /\ win.curve.time = win.time
    /\ win.time[N_SAMPLES - POLLER_BUF_SZ + 1] > 0
    /\ win.data[N_SAMPLES] \in Vals

\* C13: a tick that drains S > 0 samples leaves the old buffer without its S
\* oldest entries, followed by the drained samples in order, and hands that
\* buffer to the curve; a tick that drains nothing changes neither the buffer
\* nor the curve.
C13_TickPushesBatch ==
    [][Tick =>
        LET q == win.poller.queue
            S == Len(q)
        IN  IF S > 0
            THEN /\ win'.time = SubSeq(win.time, S + 1, Len(win.time))
                                    \o [i \in 1..S |-> q[i].t]
                 /\ win'.data = SubSeq(win.data, S + 1, Len(win.data))
                                    \o [i \in 1..S |-> q[i].d]
                 /\ win'.curve = [time |-> win'.time, data |-> win'.data]
            ELSE /\ win'.time = win.time
                 /\ win'.data = win.data
                 /\ win'.curve = win.curve]_vars

\* C13 witness: after a reset, one tick has pushed the first POLLER_BUF_SZ
\* samples of the poller: they are the last entries, in order.
C13_Witness ==
    /\ win.poller.exists
    /\ win.curve = [time |-> win.time, data |-> win.data]
    /\ \A i \in 1..N_SAMPLES :
          IF i <= N_SAMPLES - POLLER_BUF_SZ
          THEN win.time[i] = primeTime[i + POLLER_BUF_SZ] /\ win.data[i] = 0
          ELSE /\ win.time[i] = (i - (N_SAMPLES - POLLER_BUF_SZ)) * POLLER_T_S
               /\ win.data[i] \in Vals

\* C14: when a call on the axis raises while a toggle is enabling from Idle,
\* the window is left in Idle with no poller started and the timer stopped.
C14_AbortedEnableLeavesIdle ==
    [][(\E f \in {"mode", "units", "enable"} :
           \/ /\ cmd' = "togglePositionControl"
              /\ btnPositionClickable(win) /\ win.state = stateIdle
              /\ on_btnPosition_clicked(f)
           \/ /\ cmd' = "toggleVelocityControl"
              /\ btnVelocityClickable(win) /\ win.state = stateIdle
              /\ on_btnVelocity_clicked(f))
          => /\ win'.state = stateIdle
             /\ ~win'.poller.started
             /\ ~win'.timer]_vars

\* C15: the window never stays in PositionControl or VelocityControl with the
\* poller and the timer stopped (a raise of disable() forces Idle).
C15_NoControlStateWithScopeStopped ==
    win.state \in {statePosition, stateVelocity} =>
        win.poller.started /\ win.timer

\* C16: the position target of the device changes only in PositionControl and
\* the velocity target only in VelocityControl.
C16_TargetsOnlyInMatchingState ==
    [][/\ axis'.position # axis.position => win.state = statePosition
       /\ axis'.velocity # axis.velocity => win.state = stateVelocity]_vars

\* C16 witness: the position dial has written a target in PositionControl.
C16_Witness ==
    /\ win.state = statePosition
    /\ axis.position = 1

C18_PollerImpliesEnabled == win.poller.started => axis.enabled

\* C19: the timestamps of the buffer are non-decreasing.
C19_TimeIsMonotonic ==
    \A i, j \in 1..Len(win.time) : i < j => win.time[i] <= win.time[j]

\* C19 witness: the buffer holds a negative placeholder followed by a sample
\* taken later than the first POLLER_BUF_SZ periods of its poller.
C19_Witness ==
    /\ Len(win.time) = N_SAMPLES
    /\ win.time[1] < 0
    /\ win.time[N_SAMPLES] > POLLER_BUF_SZ * POLLER_T_S

\* C20: a started poller and a running timer exist exactly in PositionControl
\* and VelocityControl, and the polled register matches the state.
C20_TelemetryIffControlState ==
    /\ (win.poller.started /\ win.timer)
           <=> win.state \in {statePosition, stateVelocity}
    /\ win.state \in {stateIdle, stateHoming} => ~win.poller.started
    /\ win.state = statePosition => win.poller.reg = POS_ACTUAL
    /\ win.state = stateVelocity => win.poller.reg = VEL_ACTUAL

====
